---- MODULE Spec2Model ----
(***************************************************************************)
(* The image-comparison session of src/src/App.tsx as a state machine:     *)
(* the component state (useState hooks), the two file inputs, the Compare  *)
(* button, the asynchronous handleSubmit (encode, model call, JSON         *)
(* extraction, catch, finally), the two canvas effects and the image       *)
(* onload callbacks of drawDifferences.                                    *)
(*                                                                         *)
(* Texts are sequences of tokens: "{" and "}" are the brace characters,    *)
(* "m" is the member text  "summary":"S","differences":[..]  of an object  *)
(* (it may be followed by a nested object), "v" is a JSON scalar literal   *)
(* such as 1, and "p" is a run of prose that is not JSON.                  *)
(* Marker centres are kept exact, in 200ths of a pixel:                    *)
(* (x/100 + (width/100)/2) * W  =  ((2x + width) * W) / 200.               *)
(***************************************************************************)
EXTENDS Integers, Sequences, FiniteSets, Bags, TLC

VARIABLES image1, image2, image1URL, image2URL, result, loading,
          snackbarOpen, snackbarMessage, snackbarSeverity,
          requests, pending, canvas, lastCall, lastDrawn,
          ended, lastReply, resultFor

\* image1 .. snackbarSeverity are the useState values.  requests holds the
\* suspended handleSubmit calls, pending the drawDifferences calls whose
\* image has not decoded yet, canvas what each canvas element shows.
\* History: lastCall[c] is the latest drawDifferences call on canvas c and
\* lastDrawn[c] whether its onload has run; ended is how the step just taken
\* ended a submit attempt ("none" otherwise) and lastReply the reply text it
\* read; resultFor is the pair of files the held result was computed for.
vars == <<image1, image2, image1URL, image2URL, result, loading,
          snackbarOpen, snackbarMessage, snackbarSeverity,
          requests, pending, canvas, lastCall, lastDrawn,
          ended, lastReply, resultFor>>

----------------------------------------------------------------------------
(* Bounds of the model *)

\* handleSubmit continuations that may be in flight at once
MaxInFlight == 2
\* longest reply text, in tokens
MaxLen == 5
\* longest differences list drawn by the renderer
MaxDiffs == 3

----------------------------------------------------------------------------
(* Files, URLs and images *)

\* the files the user can pick; NoFile is null (or the undefined files[0])
Files == {"A", "B"}
NoFile == "none"
\* an object URL is modelled by the file it shows; NoURL is null
NoURL == "none"

\* natural size of the decoded image (img.width, img.height)
ImgWidth(url) == IF url = "A" THEN 200 ELSE 100
ImgHeight(url) == 100

----------------------------------------------------------------------------
(* Difference, ComparisonResult *)

\* a missing boundingBox[i] (undefined) is the empty tuple
Absent == <<>>
Boxes0 == {Absent, <<20, 30, 10, 10>>, <<0, 0, 0, 0>>}
Boxes1 == {Absent, <<20, 30, 10, 10>>, <<50, 50, 0, 0>>}
Difference == [description : {"d"}, boundingBox : Boxes0 \X Boxes1]
DiffLists == UNION {[1..n -> Difference] : n \in 0..MaxDiffs}

NoResult == [kind |-> "null", fields |-> FALSE, differences |-> <<>>]
ScalarResult == [kind |-> "scalar", fields |-> FALSE, differences |-> <<>>]
EmptyObject == [kind |-> "object", fields |-> FALSE, differences |-> <<>>]
ComparisonResult(ds) == [kind |-> "object", fields |-> TRUE, differences |-> ds]

\* JavaScript truthiness of the result state (null is falsy)
Truthy(res) == res.kind # "null"

----------------------------------------------------------------------------
(* The reply text: text.substring(text.indexOf('{'), text.lastIndexOf('}') + 1) *)

Tokens == {"{", "}", "m", "v", "p"}
Texts == UNION {[1..n -> Tokens] : n \in 0..MaxLen}

\* String.prototype.indexOf: 0-based, -1 when absent
IndexOf(text, ch) ==
  IF \E i \in 1..Len(text) : text[i] = ch
  THEN (CHOOSE i \in 1..Len(text) :
          text[i] = ch /\ \A j \in 1..(i - 1) : text[j] # ch) - 1
  ELSE -1

\* a plausible slip: the first '}' instead of the last
LastIndexOfFirst(text, ch) == IndexOf(text, ch)
\* String.prototype.lastIndexOf: 0-based, -1 when absent
LastIndexOf(text, ch) ==
  IF \E i \in 1..Len(text) : text[i] = ch
  THEN (CHOOSE i \in 1..Len(text) :
          text[i] = ch /\ \A j \in (i + 1)..Len(text) : text[j] # ch) - 1
  ELSE -1

Clamp(n, len) == IF n < 0 THEN 0 ELSE IF n > len THEN len ELSE n

\* String.prototype.substring: both arguments clamped to 0..length, and
\* swapped when start > end; the characters start..end-1 (0-based)
Substring(text, start, end) ==
  LET s == Clamp(start, Len(text))
      e == Clamp(end, Len(text))
      lo == IF s > e THEN e ELSE s
      hi == IF s > e THEN s ELSE e
  IN SubSeq(text, lo + 1, hi)

JsonString(text) ==
  Substring(text, IndexOf(text, "{"), LastIndexOf(text, "}") + 1)

\* text is a JSON object: {} or { m } or { m <object> }
RECURSIVE IsObjectText(_)
IsObjectText(t) ==
  /\ Len(t) >= 2
  /\ t[1] = "{"
  /\ t[Len(t)] = "}"
  /\ LET inner == SubSeq(t, 2, Len(t) - 1)
     IN \/ inner = <<>>
        \/ /\ inner[1] = "m"
           /\ (Len(inner) = 1 \/ IsObjectText(Tail(inner)))

\* JSON.parse of the sliced string; ds is the differences array the member
\* text "m" denotes.  ok = FALSE is a thrown SyntaxError.
JSONParse(t, ds) ==
  IF t = <<"v">> THEN [ok |-> TRUE, value |-> ScalarResult]
  ELSE IF t = <<"{", "}">> THEN [ok |-> TRUE, value |-> EmptyObject]
  ELSE IF IsObjectText(t) THEN [ok |-> TRUE, value |-> ComparisonResult(ds)]
  ELSE [ok |-> FALSE, value |-> NoResult]

----------------------------------------------------------------------------
(* drawDifferences and its img.onload callback *)

\* a plausible slip: the box corner instead of the box centre
CenterCorner(pos, size, canvasSize) == 2 * pos * canvasSize
\* (pos / 100 + (size / 100) / 2) * canvasSize, in 200ths of a pixel
Center(pos, size, canvasSize) == (2 * pos + size) * canvasSize

\* a plausible slip: the first entry without a box ends the loop
RECURSIVE ForEachAbort(_, _, _, _)
ForEachAbort(differences, imageIndex, width, height) ==
  IF differences = <<>> THEN <<>>
  ELSE LET boundingBox == Head(differences).boundingBox[imageIndex + 1]
       IN IF boundingBox # Absent
          THEN <<<<Center(boundingBox[1], boundingBox[3], width),
                   Center(boundingBox[2], boundingBox[4], height)>>>>
               \o ForEachAbort(Tail(differences), imageIndex, width, height)
          ELSE <<>>
\* differences.forEach: the centres of the markers drawn, in drawing order
RECURSIVE ForEach(_, _, _, _)
ForEach(differences, imageIndex, width, height) ==
  IF differences = <<>> THEN <<>>
  ELSE LET boundingBox == Head(differences).boundingBox[imageIndex + 1]
           rest == ForEach(Tail(differences), imageIndex, width, height)
       IN IF boundingBox # Absent
          THEN <<<<Center(boundingBox[1], boundingBox[3], width),
                   Center(boundingBox[2], boundingBox[4], height)>>>> \o rest
          ELSE rest

\* a canvas element nothing was drawn on (the default 300 x 150 bitmap)
Blank == [image |-> NoFile, width |-> 300, height |-> 150, markers |-> <<>>]

\* what one img.onload leaves on its canvas: the bitmap is resized (which
\* clears it), the image drawn, then one marker per difference.  With
\* differences undefined, forEach throws after the image is drawn.
OnLoad(task) ==
  LET w == ImgWidth(task.imageURL)
      h == ImgHeight(task.imageURL)
  IN [image |-> task.imageURL, width |-> w, height |-> h,
      markers |-> IF task.defined
                  THEN ForEach(task.differences, task.imageIndex, w, h)
                  ELSE <<>>]

\* a drawDifferences call waiting for its image to decode
DrawDifferences(c, imageURL, res, imageIndex) ==
  [canvas |-> c, imageURL |-> imageURL, differences |-> res.differences,
   defined |-> res.fields, imageIndex |-> imageIndex]

\* the image index each effect passes: 0 for canvas 1, 1 for canvas 2
EffectIndex(c) == c - 1

\* useEffect for canvas c: the calls it makes for this result and URL
Effect(c, res, imageURL) ==
  IF Truthy(res) /\ imageURL # NoURL
  THEN {DrawDifferences(c, imageURL, res, EffectIndex(c))}
  ELSE {}

NoCall == [canvas |-> 0, imageURL |-> NoURL, differences |-> <<>>,
           defined |-> FALSE, imageIndex |-> 0]

----------------------------------------------------------------------------
(* handleSubmit *)

\* requests is the bag of handleSubmit calls suspended at an await; each
\* holds the image1 and image2 of the render it was called in
InFlight == BagToSet(requests)
AllIdle == requests = EmptyBag
Suspend(r) == requests (+) SetToBag({r})
Resume(r) == requests (-) SetToBag({r})

\* a plausible slip: && for ||
MissingInputBoth(i1, i2) == i1 = NoFile /\ i2 = NoFile
\* !image1 || !image2
MissingInput(i1, i2) == i1 = NoFile \/ i2 = NoFile

\* a plausible slip: the button stays enabled while loading
ButtonDisabledNoLoading == image1 = NoFile \/ image2 = NoFile
\* disabled={loading || !image1 || !image2}
ButtonDisabled == loading \/ image1 = NoFile \/ image2 = NoFile

\* failure values: an Error whose message holds '503', an Error with another
\* message, and a value with no message property (a ProgressEvent)
CallErrors == {"msg503", "msgOther", "noMessage"}

\* error.message.includes('503') on a value without message throws
CatchThrows(err) == err = "noMessage"
CatchMessage(err) ==
  IF err = "msg503"
  THEN "The model is currently overloaded. Please try again later."
  ELSE "An error occurred while processing the images."

\* a plausible slip: setLoading(false) after the catch block, not in finally
FinallyLoadingAfterCatch(before, catchThrew) ==
  IF catchThrew THEN before ELSE FALSE
\* finally { setLoading(false) }
FinallyLoading(before, catchThrew) == FALSE

----------------------------------------------------------------------------
(* Inputs of a session *)

\* what a file input may deliver: a file, or an empty FileList (files[0]
\* is undefined)
FileInputs == Files \cup {NoFile}

D1 == <<[description |-> "d",
         boundingBox |-> <<<<20, 30, 10, 10>>, <<20, 30, 10, 10>>>>]>>
SessionDiffLists == {D1}
SessionTexts == {<<"p", "{", "m", "}", "p">>, <<"p">>, <<"}", "v", "{">>}

----------------------------------------------------------------------------
(* State after construction: the useState and useRef initial values *)

Init ==
  /\ image1 = NoFile
  /\ image2 = NoFile
  /\ image1URL = NoURL
  /\ image2URL = NoURL
  /\ result = NoResult
  /\ loading = FALSE
  /\ snackbarOpen = FALSE
  /\ snackbarMessage = ""
  /\ snackbarSeverity = "info"
  /\ requests = EmptyBag
  /\ pending = {}
  /\ canvas = [c \in 1..2 |-> Blank]
  /\ lastCall = [c \in 1..2 |-> NoCall]
  /\ lastDrawn = [c \in 1..2 |-> FALSE]
  /\ ended = "none"
  /\ lastReply = <<>>
  /\ resultFor = <<NoFile, NoFile>>

----------------------------------------------------------------------------
(* The effects: run after a render in which result or the URL changed *)

\* the drawDifferences calls of the effects of the canvases in cs
EffectCalls(cs, res, url1, url2) ==
  UNION {Effect(c, res, IF c = 1 THEN url1 ELSE url2) : c \in cs}

RunEffects(cs, res, url1, url2) ==
  LET calls == EffectCalls(cs, res, url1, url2)
      called == {t.canvas : t \in calls}
  IN /\ pending' = pending \cup calls
     /\ lastCall' = [c \in 1..2 |->
                       IF c \in called
                       THEN CHOOSE t \in calls : t.canvas = c
                       ELSE lastCall[c]]
     /\ lastDrawn' = [c \in 1..2 |-> IF c \in called THEN FALSE ELSE lastDrawn[c]]

----------------------------------------------------------------------------
(* File selection *)

\* With an empty FileList, files[0] is undefined: setImage1(undefined) is
\* queued, then URL.createObjectURL(undefined) throws and the URL stays.
HandleImage1Change(file) ==
  /\ image1' = file
  /\ image1URL' = IF file = NoFile THEN image1URL ELSE file
  /\ RunEffects(IF file = NoFile THEN {} ELSE {1}, result, file, image2URL)
  /\ ended' = "none"
  /\ lastReply' = <<>>
  /\ UNCHANGED <<image2, image2URL, result, loading, snackbarOpen,
                 snackbarMessage, snackbarSeverity, requests, canvas, resultFor>>

HandleImage2Change(file) ==
  /\ image2' = file
  /\ image2URL' = IF file = NoFile THEN image2URL ELSE file
  /\ RunEffects(IF file = NoFile THEN {} ELSE {2}, result, image1URL, file)
  /\ ended' = "none"
  /\ lastReply' = <<>>
  /\ UNCHANGED <<image1, image1URL, result, loading, snackbarOpen,
                 snackbarMessage, snackbarSeverity, requests, canvas, resultFor>>

----------------------------------------------------------------------------
(* handleSubmit up to its first await *)

HandleSubmit ==
  IF MissingInput(image1, image2)
  THEN /\ snackbarMessage' = "Please upload both images."
       /\ snackbarSeverity' = "warning"
       /\ snackbarOpen' = TRUE
       /\ ended' = "missing"
       /\ lastReply' = <<>>
       /\ UNCHANGED <<image1, image2, image1URL, image2URL, result, loading,
                      requests, pending, canvas, lastCall, lastDrawn, resultFor>>
  ELSE /\ loading' = TRUE
       /\ result' = NoResult
       /\ requests' = Suspend([pc |-> "encoding", image1 |-> image1,
                                image2 |-> image2])
       \* the result card and its canvases are unmounted; an onload still
       \* to come draws on a detached element
       /\ pending' = {}
       /\ canvas' = [c \in 1..2 |-> Blank]
       /\ lastCall' = [c \in 1..2 |-> NoCall]
       /\ lastDrawn' = [c \in 1..2 |-> FALSE]
       /\ resultFor' = <<NoFile, NoFile>>
       /\ ended' = "none"
       /\ lastReply' = <<>>
       /\ UNCHANGED <<image1, image2, image1URL, image2URL, snackbarOpen,
                      snackbarMessage, snackbarSeverity>>

\* a click on the Compare Images button
ClickCompare ==
  /\ ~ButtonDisabled
  /\ BagCardinality(requests) < MaxInFlight
  /\ HandleSubmit

\* handleSubmit called whatever the state of the button
InvokeHandleSubmit ==
  /\ BagCardinality(requests) < MaxInFlight
  /\ HandleSubmit

----------------------------------------------------------------------------
(* handleSubmit after an await: try, catch, finally *)

\* the catch block for the failure value err, then finally
Failed(r, err, kind, text) ==
  /\ IF CatchThrows(err)
     THEN UNCHANGED <<snackbarOpen, snackbarMessage, snackbarSeverity>>
     ELSE /\ snackbarMessage' = CatchMessage(err)
          /\ snackbarSeverity' = "error"
          /\ snackbarOpen' = TRUE
  /\ loading' = FinallyLoading(loading, CatchThrows(err))
  /\ requests' = Resume(r)
  /\ ended' = kind
  /\ lastReply' = text
  /\ UNCHANGED <<image1, image2, image1URL, image2URL, result, pending,
                 canvas, lastCall, lastDrawn, resultFor>>

\* Promise.all of the two toBase64 resolves: generateContent is called
EncodeResolved(r) ==
  /\ BagIn(r, requests)
  /\ r.pc = "encoding"
  /\ r.image1 # NoFile
  /\ r.image2 # NoFile
  /\ requests' = Resume(r) (+) SetToBag({[r EXCEPT !.pc = "calling"]})
  /\ ended' = "none"
  /\ lastReply' = <<>>
  /\ UNCHANGED <<image1, image2, image1URL, image2URL, result, loading,
                 snackbarOpen, snackbarMessage, snackbarSeverity, pending,
                 canvas, lastCall, lastDrawn, resultFor>>

\* a toBase64 rejects: reader.onerror passes its ProgressEvent, which has no
\* message; readAsDataURL of a missing file throws a TypeError, which has
EncodeRejected(r) ==
  /\ BagIn(r, requests)
  /\ r.pc = "encoding"
  /\ Failed(r,
            IF r.image1 = NoFile \/ r.image2 = NoFile
            THEN "msgOther" ELSE "noMessage",
            "encode", <<>>)

\* generateContent, result.response or response.text() fails with err
CallRejected(r, err) ==
  /\ BagIn(r, requests)
  /\ r.pc = "calling"
  /\ Failed(r, err, "call", <<>>)

\* the reply text arrives: slice, JSON.parse, setResult.  The SyntaxError of
\* a failed parse has a message, taken here not to hold '503'.
ReplyReceived(r, text, ds) ==
  LET parsed == JSONParse(JsonString(text), ds)
  IN /\ BagIn(r, requests)
     /\ r.pc = "calling"
     /\ IF parsed.ok
        THEN /\ result' = parsed.value
             /\ loading' = FinallyLoading(loading, FALSE)
             /\ requests' = Resume(r)
             /\ RunEffects({1, 2}, parsed.value, image1URL, image2URL)
             /\ resultFor' = <<r.image1, r.image2>>
             /\ ended' = "ok"
             /\ lastReply' = text
             /\ UNCHANGED <<image1, image2, image1URL, image2URL, snackbarOpen,
                            snackbarMessage, snackbarSeverity, canvas>>
        ELSE Failed(r, "msgOther", "parse", text)

HandleSnackbarClose ==
  /\ snackbarOpen
  /\ snackbarOpen' = FALSE
  /\ ended' = "none"
  /\ lastReply' = <<>>
  /\ UNCHANGED <<image1, image2, image1URL, image2URL, result, loading,
                 snackbarMessage, snackbarSeverity, requests, pending, canvas,
                 lastCall, lastDrawn, resultFor>>

----------------------------------------------------------------------------
(* Image decode *)

\* img.onload of a pending drawDifferences call
ImageLoaded(t) ==
  /\ t \in pending
  /\ canvas' = [canvas EXCEPT ![t.canvas] = OnLoad(t)]
  /\ pending' = pending \ {t}
  /\ lastDrawn' = [lastDrawn EXCEPT ![t.canvas] = @ \/ t = lastCall[t.canvas]]
  /\ ended' = "none"
  /\ lastReply' = <<>>
  /\ UNCHANGED <<image1, image2, image1URL, image2URL, result, loading,
                 snackbarOpen, snackbarMessage, snackbarSeverity, requests,
                 lastCall, resultFor>>

\* the image fails to decode: no onerror handler, nothing is drawn
ImageError(t) ==
  /\ t \in pending
  /\ pending' = pending \ {t}
  /\ ended' = "none"
  /\ lastReply' = <<>>
  /\ UNCHANGED <<image1, image2, image1URL, image2URL, result, loading,
                 snackbarOpen, snackbarMessage, snackbarSeverity, requests,
                 canvas, lastCall, lastDrawn, resultFor>>

----------------------------------------------------------------------------
(* The session driven through its controls *)

Next ==
  \/ \E file \in FileInputs : HandleImage1Change(file)
  \/ \E file \in FileInputs : HandleImage2Change(file)
  \/ ClickCompare
  \/ \E r \in InFlight : EncodeResolved(r)
  \/ \E r \in InFlight : EncodeRejected(r)
  \/ \E r \in InFlight, err \in CallErrors : CallRejected(r, err)
  \/ \E r \in InFlight, text \in SessionTexts, ds \in SessionDiffLists :
       ReplyReceived(r, text, ds)
  \/ HandleSnackbarClose
  \/ \E t \in pending : ImageLoaded(t)
  \/ \E t \in pending : ImageError(t)

Spec == Init /\ [][Next]_vars

(* The handlers called directly: handleSubmit is not gated by the button. *)
(* The image decodes stay pending here: they touch only the canvases.     *)

NextDirect ==
  \/ \E file \in FileInputs : HandleImage1Change(file)
  \/ \E file \in FileInputs : HandleImage2Change(file)
  \/ InvokeHandleSubmit
  \/ \E r \in InFlight : EncodeResolved(r)
  \/ \E r \in InFlight : EncodeRejected(r)
  \/ \E r \in InFlight, err \in CallErrors : CallRejected(r, err)
  \/ \E r \in InFlight, text \in SessionTexts, ds \in SessionDiffLists :
       ReplyReceived(r, text, ds)
  \/ HandleSnackbarClose

SpecDirect == Init /\ [][NextDirect]_vars

(* The extraction over every reply text: a request waits for its reply *)

InitParse ==
  /\ image1 = "A"
  /\ image2 = "B"
  /\ image1URL = "A"
  /\ image2URL = "B"
  /\ result = NoResult
  /\ loading = TRUE
  /\ snackbarOpen = FALSE
  /\ snackbarMessage = ""
  /\ snackbarSeverity = "info"
  /\ requests = SetToBag({[pc |-> "calling", image1 |-> "A", image2 |-> "B"]})
  /\ pending = {}
  /\ canvas = [c \in 1..2 |-> Blank]
  /\ lastCall = [c \in 1..2 |-> NoCall]
  /\ lastDrawn = [c \in 1..2 |-> FALSE]
  /\ ended = "none"
  /\ lastReply = <<>>
  /\ resultFor = <<NoFile, NoFile>>

NextParse == \E r \in InFlight, text \in Texts : ReplyReceived(r, text, D1)

SpecParse == InitParse /\ [][NextParse]_vars

(* The renderer over every differences list: a result has just been set *)

InitRender ==
  \E ds \in DiffLists, url1 \in Files, url2 \in Files :
    /\ image1 = url1
    /\ image2 = url2
    /\ image1URL = url1
    /\ image2URL = url2
    /\ result = ComparisonResult(ds)
    /\ loading = FALSE
    /\ snackbarOpen = FALSE
    /\ snackbarMessage = ""
    /\ snackbarSeverity = "info"
    /\ requests = EmptyBag
    /\ pending = EffectCalls({1, 2}, ComparisonResult(ds), url1, url2)
    /\ canvas = [c \in 1..2 |-> Blank]
    /\ lastCall = [c \in 1..2 |->
                     CHOOSE t \in EffectCalls({c}, ComparisonResult(ds), url1, url2) :
                       TRUE]
    /\ lastDrawn = [c \in 1..2 |-> FALSE]
    /\ ended = "ok"
    /\ lastReply = <<"{", "m", "}">>
    /\ resultFor = <<url1, url2>>

NextRender ==
  \/ \E t \in pending : ImageLoaded(t)
  \/ \E t \in pending : ImageError(t)

SpecRender == InitRender /\ [][NextRender]_vars

----------------------------------------------------------------------------
(* Properties *)

\* the differences of the two-image scenario
D2 == <<[description |-> "d",
         boundingBox |-> <<<<0, 0, 0, 0>>, <<50, 50, 0, 0>>>>]>>
Failures == {"missing", "encode", "call", "parse"}
GenericMessage == "An error occurred while processing the images."

\* C1: a handleSubmit started with image1 or image2 missing never becomes a
\* request: every request in flight, encoding or waiting for the model's
\* reply, was submitted with both images, so the model call is issued only
\* by a submit at which both were present.
C1_CallOnlyWithBothImages ==
  \A r \in InFlight :
    /\ r.pc \in {"encoding", "calling"}
    /\ r.image1 # NoFile
    /\ r.image2 # NoFile

\* handleSubmit has just run with exactly one image selected; it only
\* warned, and nothing is in flight
C1_Witness ==
  /\ ended = "missing"
  /\ (image1 = NoFile) # (image2 = NoFile)
  /\ InFlight = {}
  /\ ~loading
  /\ snackbarSeverity = "warning"

\* C2: once a handleSubmit that set loading has resolved, with success or
\* with any failure, loading is false again, and the button is enabled
\* whenever both images are selected.
C2_LoadingCleared ==
  AllIdle =>
    /\ ~loading
    /\ (image1 # NoFile /\ image2 # NoFile => ~ButtonDisabled)

\* an attempt has just failed in encoding, where the catch block itself
\* throws, and loading is cleared all the same
C2_Witness ==
  /\ ended = "encode"
  /\ AllIdle
  /\ ~loading
  /\ image1 # NoFile
  /\ image2 # NoFile

\* C3: every failed submit attempt ends with the snackbar open and a message
\* set, whatever the failure kind.
C3_FailureVisible ==
  ended \in Failures => snackbarOpen /\ snackbarMessage # ""

\* C4: at most one handleSubmit is outstanding: while one is, loading is true
\* and the button is disabled, so no click starts a second one.
C4_OneOutstanding ==
  /\ BagCardinality(requests) <= 1
  /\ (InFlight # {} => loading /\ ButtonDisabled)

\* a request is outstanding and the user has since selected another file
\* for image 1, with both images selected
C4_Witness ==
  /\ \E r \in InFlight : r.pc = "calling" /\ r.image1 # image1
  /\ image1 # NoFile
  /\ image2 # NoFile
  /\ loading

\* a JSON object with the required fields
IsResultObject(t) == Len(t) >= 3 /\ IsObjectText(t)

\* text holds such an object somewhere, whatever surrounds it
ContainsObject(text) ==
  \E i \in 1..Len(text), j \in 1..Len(text) : IsResultObject(SubSeq(text, i, j))

\* text is such an object between two runs of prose without braces
ObjectInBraceFreeProse(text) ==
  \E i \in 1..Len(text), j \in 1..Len(text) :
    /\ IsResultObject(SubSeq(text, i, j))
    /\ \A k \in 1..Len(text) : (k < i \/ k > j) => text[k] \notin {"{", "}"}

\* C5 as stated: for any reply text holding a valid JSON object with the
\* required fields, surrounded by arbitrary prose, the slice from the first
\* '{' to the last '}' parses and result is set to that object.
C5_AnyProse ==
  (ended \in {"ok", "parse"} /\ ContainsObject(lastReply)) =>
    (ended = "ok" /\ result = ComparisonResult(D1))

\* C5 amended: the same for a reply text whose prose, before and after the
\* object, holds no '{' and no '}'.
C5_BraceFreeProse ==
  (ended \in {"ok", "parse"} /\ ObjectInBraceFreeProse(lastReply)) =>
    (ended = "ok" /\ result = ComparisonResult(D1) /\ ~loading)

\* the reply  prose { object } prose  has been parsed into the result
C5_Witness ==
  /\ ended = "ok"
  /\ lastReply = <<"p", "{", "m", "}", "p">>
  /\ result = ComparisonResult(D1)

RECURSIVE BraceScan(_, _)
BraceScan(t, depth) ==
  IF t = <<>> THEN depth = 0
  ELSE IF Head(t) = "{" THEN BraceScan(Tail(t), depth + 1)
  ELSE IF Head(t) = "}" THEN depth > 0 /\ BraceScan(Tail(t), depth - 1)
  ELSE BraceScan(Tail(t), depth)

\* no '{', no '}', a '}' with no '{' open before it, or a '{' never closed
UnbalancedOrAbsentBraces(text) ==
  \/ \A k \in 1..Len(text) : text[k] # "{"
  \/ \A k \in 1..Len(text) : text[k] # "}"
  \/ ~BraceScan(text, 0)

\* C6: for any reply text with unbalanced or absent braces the request fails
\* with a parse error that is caught: result stays null, the generic message
\* is shown, loading is cleared and nothing is left in flight.
C6_UnbalancedFails ==
  (ended \in {"ok", "parse"} /\ UnbalancedOrAbsentBraces(lastReply)) =>
    /\ ended = "parse"
    /\ result = NoResult
    /\ snackbarOpen
    /\ snackbarMessage = GenericMessage
    /\ ~loading
    /\ AllIdle

Drawn(c) == canvas[c].image # NoFile
HasBox(ds, c, k) == ds[k].boundingBox[c] # Absent

\* C7: on a drawn canvas of size W x H every difference whose box for the
\* image is [x, y, width, height] has its marker at
\* ((x/100 + (width/100)/2) * W, (y/100 + (height/100)/2) * H), here in
\* 200ths of a pixel; box [20, 30, 10, 10] on a 200 x 100 canvas gives
\* (50, 35), and boxes [[0,0,0,0],[50,50,0,0]] on two 100 x 100 images give
\* (0, 0) on image 0 and (50, 50) on image 1.
C7_MarkerCentre ==
  \A c \in 1..2 :
    Drawn(c) =>
      LET ds == result.differences
          W == canvas[c].width
          H == canvas[c].height
          marks == {canvas[c].markers[n] : n \in 1..Len(canvas[c].markers)}
      IN /\ W = ImgWidth(canvas[c].image)
         /\ H = ImgHeight(canvas[c].image)
         /\ \A k \in 1..Len(ds) :
              HasBox(ds, c, k) =>
                LET b == ds[k].boundingBox[c]
                IN <<(2 * b[1] + b[3]) * W, (2 * b[2] + b[4]) * H>> \in marks
         /\ (Len(ds) = 1 /\ ds[1].boundingBox[c] = <<20, 30, 10, 10>> /\ W = 200)
              => canvas[c].markers = <<<<50 * 200, 35 * 200>>>>
         /\ (ds = D2 /\ W = 100 /\ c = 1) => canvas[c].markers = <<<<0, 0>>>>
         /\ (ds = D2 /\ W = 100 /\ c = 2)
              => canvas[c].markers = <<<<50 * 200, 50 * 200>>>>

\* both 100 x 100 images of the scenario are drawn, with one marker each
C7_Witness ==
  /\ result.differences = D2
  /\ Drawn(1)
  /\ Drawn(2)
  /\ canvas[1].width = 100
  /\ canvas[2].width = 100
  /\ canvas[1].markers = <<<<0, 0>>>>
  /\ canvas[2].markers = <<<<10000, 10000>>>>

\* C8: once the image decodes of the drawDifferences calls made on a canvas
\* have completed, in whatever order, the canvas shows the last call's image
\* and markers only.
C8_LastCallWins ==
  \A c \in 1..2 :
    (Truthy(result) /\ lastDrawn[c] /\ \A t \in pending : t.canvas # c)
      => canvas[c] = OnLoad(lastCall[c])

C10_ResultForCurrentImages ==
  Truthy(result) => resultFor = <<image1, image2>>

====
